---- MODULE Spec2Model ----
(***************************************************************************)
(* Model of the multi-SEM wafer import of janelia_emrp/msem/               *)
(* msem_to_render.py: scan selection, the per-slab import loop with its    *)
(* layer counter z, and the calls it issues to the render web service.     *)
(*                                                                         *)
(* One run of import_slab_stacks_for_wafer is a sequence of steps that is  *)
(* cut at every remote call, because every remote call can raise.  The     *)
(* render store outlives a run, so several runs are played one after the   *)
(* other against the same store.                                           *)
(***************************************************************************)
EXTENDS Integers, Sequences, FiniteSets, TLC

VARIABLES
    \* ---- command line of the current run (main, lines 396-410)
    include_scan_list,          \* --include_scan, a list of ints
    exclude_scan_list,          \* --exclude_scan, a list of ints
    \* ---- file system seen by the current run
    missing,                    \* <<slab, scan>> whose first SFOV image is not on disk
    \* ---- locals of import_slab_stacks_for_wafer
    pc,                         \* position of the run
    slab,                       \* magc id of the slab being imported (loop of line 256)
    effective_scans,            \* line 268
    scans,                      \* line 273
    scan_idx,                   \* position of "for scan in scans" (line 282), 1-based
    z,                          \* line 259
    stack_is_in_loading_state,  \* line 258
    tile_specs,                 \* line 312
    \* ---- render web service (persists across runs)
    stack_state,                \* slab -> "absent" | "LOADING" | "COMPLETE"
    stack_layer,                \* slab -> [scan -> z of the stored tiles of that scan, 0 = none]
    \* ---- observation
    calls,                      \* remote calls issued by the current run, in order
    run_no,                     \* number of runs started
    rerun,                      \* the current run repeats the inputs of the previous one
    start_state,                \* stack_state when the current run started
    prev_calls,                 \* calls of the previous run
    prev_pc,                    \* how the previous run ended
    \* ---- acquisition log
    xlog,                       \* what the log of the wafer lacks (see LogChoices)
    \* ---- a function of the module applied on its own
    fn_args,                    \* the arguments drawn for it
    fn_result                   \* what it returned

vars == <<include_scan_list, exclude_scan_list, missing, pc, slab, effective_scans,
          scans, scan_idx, z, stack_is_in_loading_state, tile_specs,
          stack_state, stack_layer, calls, run_no, rerun, start_state,
          prev_calls, prev_pc, xlog, fn_args, fn_result>>

(***************************************************************************)
(* Bounds of the model.                                                    *)
(***************************************************************************)
MaxScan == 3
NumSlabs == 2
NumMfovs == 1
MaxInclude == 1
MaxExclude == 1
MaxMissing == 1
MaxRuns == 2
MaxListLen == 2
MaxIdSlab == 2
MaxIdMfov == 3
MaxPoints == 3
MaxBuildMfovs == 2
MaxLogDefects == 1

ScanIds == 0..MaxScan
Slabs == 1..NumSlabs

SubsetsUpTo(S, k) == {T \in SUBSET S : Cardinality(T) <= k}

SeqsUpTo(S, k) == UNION {[1..n -> S] : n \in 0..k}

Range(s) == {s[i] : i \in DOMAIN s}

(***************************************************************************)
(* Python helpers.                                                         *)
(***************************************************************************)
Min(S) == CHOOSE m \in S : \A n \in S : m <= n

RECURSIVE sorted(_)
sorted(S) == IF S = {} THEN <<>> ELSE <<Min(S)>> \o sorted(S \ {Min(S)})

(***************************************************************************)
(* The acquisition log (xlog) read by the run.  The accessors live outside *)
(* the modelled file; the log is a small wafer: slab s was first acquired  *)
(* in scan s, scan 0 holds no data, every slab has the MFOVs 1..NumMfovs,  *)
(* and every MFOV has N_BEAMS SFOVs.  A log can be defective: it lists no  *)
(* MFOV for some slab, or MFOV positions from which no layout can be       *)
(* built.                                                                  *)
(***************************************************************************)
\* a log that lacks nothing
NoDefect == [no_mfovs |-> {}, bad_layout |-> {}]

\* the logs a run can be given
LogChoices ==
    {l \in [no_mfovs : SUBSET Slabs, bad_layout : SUBSET Slabs] :
        Cardinality(l.no_mfovs) + Cardinality(l.bad_layout) <= MaxLogDefects}

N_BEAMS == 91

get_effective_scans(s) == {n \in ScanIds : n >= s}

\* slab_info.mfovs
slab_mfovs(s) == IF s \in xlog.no_mfovs THEN <<>> ELSE [i \in 1..NumMfovs |-> i]

\* stage position of one SFOV: the MFOVs lie side by side, the SFOVs of an
\* MFOV on a 10-wide grid, and every scan is shifted a little
StageXY(s, scan, mfov, sfov) ==
    <<3000 * mfov + 300 * (sfov % 10) - 7 * scan - 5000,
      300 * (sfov \div 10) + 11 * scan + 50 * s>>

\* (path list, xy list) of one MFOV, ordered by 0-based SFOV index; a path
\* is identified by what it names
get_xys_sfov_and_paths(scan, s, mfov) ==
    [paths |-> [i \in 1..N_BEAMS |-> <<s, scan, mfov, i - 1>>],
     xys   |-> [i \in 1..N_BEAMS |-> StageXY(s, scan, mfov, i - 1)]]

RECURSIVE Flatten(_)
Flatten(ss) == IF ss = <<>> THEN <<>> ELSE Head(ss) \o Flatten(Tail(ss))

\* the loop of lines 291-298 over a list of MFOVs: the lists of all of them,
\* extended in MFOV list order
collect_paths(scan, s, mfovs) ==
    Flatten([i \in DOMAIN mfovs |-> get_xys_sfov_and_paths(scan, s, mfovs[i]).paths])

collect_xys(scan, s, mfovs) ==
    Flatten([i \in DOMAIN mfovs |-> get_xys_sfov_and_paths(scan, s, mfovs[i]).xys])

slab_scan_sfov_path_list(scan, s) == collect_paths(scan, s, slab_mfovs(s))

slab_scan_sfov_xy_list(scan, s) == collect_xys(scan, s, slab_mfovs(s))

\* Path.exists() of a collected path
path_exists(path, miss) == <<path[1], path[2]>> \notin miss

(***************************************************************************)
(* Tile ids and tile specs.                                                *)
(***************************************************************************)
\* variant: the first entry repeats the second (a copying slip)
RENDER_SFOV_ORDER_Slip ==
    <<47, 47, 36, 35, 45, 56, 57, 48, 37, 27,
      26, 25, 34, 44, 55, 65, 66, 67, 58, 49,
      38, 28, 19, 18, 17, 16, 24, 33, 43, 54,
      64, 73, 74, 75, 76, 68, 59, 50, 39, 29,
      20, 12, 11, 10,  9,  8, 15, 23, 32, 42,
      53, 63, 72, 80, 81, 82, 83, 84, 77, 69,
      60, 51, 40, 30, 21, 13,  6,  5,  4,  3,
       2,  1,  7, 14, 22, 31, 41, 52, 62, 71,
      79, 86, 87, 88, 89, 90, 91, 85, 78, 70,
      61>>

RENDER_SFOV_ORDER ==
    <<46, 47, 36, 35, 45, 56, 57, 48, 37, 27,
      26, 25, 34, 44, 55, 65, 66, 67, 58, 49,
      38, 28, 19, 18, 17, 16, 24, 33, 43, 54,
      64, 73, 74, 75, 76, 68, 59, 50, 39, 29,
      20, 12, 11, 10,  9,  8, 15, 23, 32, 42,
      53, 63, 72, 80, 81, 82, 83, 84, 77, 69,
      60, 51, 40, 30, 21, 13,  6,  5,  4,  3,
       2,  1,  7, 14, 22, 31, 41, 52, 62, 71,
      79, 86, 87, 88, 89, 90, 91, 85, 78, 70,
      61>>

DigitChar == <<"0", "1", "2", "3", "4", "5", "6", "7", "8", "9">>

\* str(n) of a non-negative int
RECURSIVE Decimal(_)
Decimal(n) == IF n < 10 THEN DigitChar[n + 1]
              ELSE Decimal(n \div 10) \o DigitChar[(n % 10) + 1]

RECURSIVE Zeros(_)
Zeros(k) == IF k <= 0 THEN "" ELSE "0" \o Zeros(k - 1)

\* f"{n:0<width>}" of a non-negative int: zero-padded to at least width digits
format_int(n, width) ==
    LET d == Decimal(n) IN Zeros(width - Len(d)) \o d

RECURSIVE join(_, _)
join(sep, parts) ==
    IF parts = <<>> THEN ""
    ELSE IF Len(parts) = 1 THEN parts[1]
    ELSE parts[1] \o sep \o join(sep, Tail(parts))

\* variant: the scan component is left out of the id
create_tile_id_NoScan(wafer_id, s, scan, mfov, sfov) ==
    LET scope_sfov_number == sfov + 1
    IN  join("_", <<"w" \o wafer_id,
                    "magc" \o format_int(s, 4),
                    "m" \o format_int(mfov, 4),
                    "r" \o format_int(RENDER_SFOV_ORDER[sfov + 1], 2),
                    "s" \o format_int(scope_sfov_number, 2)>>)

\* variant: the SFOV component is the 0-based index
create_tile_id_ZeroBased(wafer_id, s, scan, mfov, sfov) ==
    join("_", <<"w" \o wafer_id,
                "magc" \o format_int(s, 4),
                "scan" \o format_int(scan, 3),
                "m" \o format_int(mfov, 4),
                "r" \o format_int(RENDER_SFOV_ORDER[sfov + 1], 2),
                "s" \o format_int(sfov, 2)>>)

\* lines 152-174; sfov is the 0-based SFOV index
create_tile_id(wafer_id, s, scan, mfov, sfov) ==
    LET scope_sfov_number == sfov + 1
    IN  join("_", <<"w" \o wafer_id,
                    "magc" \o format_int(s, 4),
                    "scan" \o format_int(scan, 3),
                    "m" \o format_int(mfov, 4),
                    "r" \o format_int(RENDER_SFOV_ORDER[sfov + 1], 2),
                    "s" \o format_int(scope_sfov_number, 2)>>)

Margin == 400

\* variant: the margin is not added to the translation
build_tile_spec_NoMargin(image_path, stage_x, stage_y, stage_z, tile_id, min_x, min_y, margin) ==
    [tileId   |-> tile_id,
     z        |-> stage_z,
     stageX   |-> stage_x,
     stageY   |-> stage_y,
     imageUrl |-> image_path,
     dx       |-> stage_x - min_x,
     dy       |-> stage_y - min_y]

build_tile_spec(image_path, stage_x, stage_y, stage_z, tile_id, min_x, min_y, margin) ==
    [tileId   |-> tile_id,
     z        |-> stage_z,
     stageX   |-> stage_x,
     stageY   |-> stage_y,
     imageUrl |-> image_path,
     dx       |-> stage_x - min_x + margin,
     dy       |-> stage_y - min_y + margin]

\* variant: the pairs run SFOV-major, as product(range(N_BEAMS), mfovs) would give them
MfovSfovPair_SfovMajor(mfovs, i) ==
    <<mfovs[((i - 1) % Len(mfovs)) + 1], (i - 1) \div Len(mfovs)>>

\* product(mfovs, range(N_BEAMS)): the i-th pair, 1-based
MfovSfovPair(mfovs, i) == <<mfovs[((i - 1) \div N_BEAMS) + 1], (i - 1) % N_BEAMS>>

ZipLen(mfovs, path_list, xy_list) ==
    LET a == Len(mfovs) * N_BEAMS
        b == Len(path_list)
        c == Len(xy_list)
        ab == IF a <= b THEN a ELSE b
    IN  IF ab <= c THEN ab ELSE c

build_tile_specs_for_slab_scan(scan, s, mfovs, path_list, xy_list, stage_z, wafer_id) ==
    LET min_x == Min({xy_list[i][1] : i \in DOMAIN xy_list})
        min_y == Min({xy_list[i][2] : i \in DOMAIN xy_list})
    IN  [i \in 1..ZipLen(mfovs, path_list, xy_list) |->
            build_tile_spec(path_list[i], xy_list[i][1], xy_list[i][2], stage_z,
                            create_tile_id(wafer_id, s, scan, MfovSfovPair(mfovs, i)[1],
                                           MfovSfovPair(mfovs, i)[2]),
                            min_x, min_y, Margin)]

(***************************************************************************)
(* Scan selection, lines 273-276.                                          *)
(***************************************************************************)
\* variant: the requested scans are not intersected with the effective scans
SelectScans_KeepsRequested(include, exclude, effective) ==
    sorted((IF Range(include) # {} THEN Range(include) ELSE effective) \ Range(exclude))

SelectScans(include, exclude, effective) ==
    sorted(((IF Range(include) # {} THEN Range(include) ELSE effective) \cap effective)
           \ Range(exclude))

(***************************************************************************)
(* The run.                                                                *)
(***************************************************************************)
NoSpecs == <<>>

\* --wafer_id of every run
WaferId == "60"

Call(op, s, result, scan, layer) ==
    [op |-> op, stack |-> s, result |-> result, scan |-> scan, z |-> layer]

RemotePcs == {"get_stack_metadata", "create_stack", "set_stack_state_LOADING",
              "save_tile_specs", "set_stack_state_COMPLETE"}

Init ==
    /\ include_scan_list = <<>>
    /\ exclude_scan_list = <<>>
    /\ missing = {}
    /\ pc = "idle"
    /\ slab = 0
    /\ effective_scans = {}
    /\ scans = <<>>
    /\ scan_idx = 0
    /\ z = 0
    /\ stack_is_in_loading_state = FALSE
    /\ tile_specs = NoSpecs
    /\ stack_state = [s \in Slabs |-> "absent"]
    /\ stack_layer = [s \in Slabs |-> [n \in ScanIds |-> 0]]
    /\ calls = <<>>
    /\ run_no = 0
    /\ rerun = FALSE
    /\ start_state = [s \in Slabs |-> "absent"]
    /\ prev_calls = <<>>
    /\ prev_pc = "idle"
    /\ xlog \in LogChoices
    /\ fn_args = <<>>
    /\ fn_result = <<>>

\* the locals of a fresh invocation, up to the slab loop of line 256
EnterRun ==
    /\ pc' = "slab"
    /\ slab' = 1
    /\ effective_scans' = {}
    /\ scans' = <<>>
    /\ scan_idx' = 0
    /\ z' = 0
    /\ stack_is_in_loading_state' = FALSE
    /\ tile_specs' = NoSpecs
    /\ calls' = <<>>
    /\ run_no' = run_no + 1
    /\ start_state' = stack_state
    /\ UNCHANGED <<stack_state, stack_layer, xlog, fn_args, fn_result>>

\* images that can be missing: the first images of scans the log has data for
MissingCandidates == {p \in Slabs \X ScanIds : p[2] \in get_effective_scans(p[1])}

\* the program is started with a command line, on whatever files are on disk
StartRun ==
    /\ pc \in {"idle", "done", "aborted"}
    /\ run_no < MaxRuns
    /\ \E inc \in SubsetsUpTo(ScanIds, MaxInclude),
          exc \in SubsetsUpTo(ScanIds, MaxExclude),
          mis \in SubsetsUpTo(MissingCandidates, MaxMissing) :
            /\ include_scan_list' = sorted(inc)
            /\ exclude_scan_list' = sorted(exc)
            /\ missing' = mis
    /\ rerun' = FALSE
    /\ prev_calls' = <<>>
    /\ prev_pc' = "idle"
    /\ EnterRun

\* the program is started again with the command line and the files of the
\* run before
StartRerun ==
    /\ pc \in {"done", "aborted"}
    /\ run_no < MaxRuns
    /\ rerun' = TRUE
    /\ prev_calls' = calls
    /\ prev_pc' = pc
    /\ UNCHANGED <<include_scan_list, exclude_scan_list, missing>>
    /\ EnterRun

\* variant: the failure of the layout is swallowed and the slab is imported
\* without a layout
BuildLayoutRaises_Swallowed ==
    /\ pc = "slab"
    /\ slab \in xlog.bad_layout
    /\ stack_is_in_loading_state' = FALSE
    /\ z' = 1
    /\ effective_scans' = get_effective_scans(slab)
    /\ scans' = sorted(get_effective_scans(slab))
    /\ scan_idx' = 1
    /\ pc' = "scan"
    /\ UNCHANGED <<include_scan_list, exclude_scan_list, missing, slab, tile_specs,
                   stack_state, stack_layer, calls, run_no, rerun, start_state,
                   prev_calls, prev_pc, xlog, fn_args, fn_result>>

\* lines 256-266: the layout of the slab cannot be built; the exception
\* reaches the handler of lines 460-463, which exits
BuildLayoutRaises ==
    /\ pc = "slab"
    /\ slab \in xlog.bad_layout
    /\ stack_is_in_loading_state' = FALSE
    /\ z' = 1
    /\ pc' = "aborted"
    /\ UNCHANGED <<include_scan_list, exclude_scan_list, missing, slab,
                   effective_scans, scans, scan_idx, tile_specs,
                   stack_state, stack_layer, calls, run_no, rerun, start_state,
                   prev_calls, prev_pc, xlog, fn_args, fn_result>>

\* lines 256-280
BeginSlab ==
    /\ pc = "slab"
    /\ slab \notin xlog.bad_layout
    /\ stack_is_in_loading_state' = FALSE
    /\ z' = 1
    /\ effective_scans' = get_effective_scans(slab)
    /\ scans' = SelectScans(include_scan_list, exclude_scan_list, get_effective_scans(slab))
    /\ scan_idx' = 1
    /\ pc' = "scan"
    /\ UNCHANGED <<include_scan_list, exclude_scan_list, missing, slab, tile_specs,
                   stack_state, stack_layer, calls, run_no, rerun, start_state,
                   prev_calls, prev_pc, xlog, fn_args, fn_result>>

CurrentScan == scans[scan_idx]

\* lines 300-304: nothing was collected for the scan, and the first element
\* of the empty list is asked for; the IndexError reaches the handler of
\* lines 460-463, which exits
FirstPathIndexError ==
    /\ pc = "scan"
    /\ scan_idx <= Len(scans)
    /\ slab_scan_sfov_path_list(CurrentScan, slab) = <<>>
    /\ pc' = "aborted"
    /\ UNCHANGED <<include_scan_list, exclude_scan_list, missing, slab,
                   effective_scans, scans, scan_idx, z, stack_is_in_loading_state,
                   tile_specs, stack_state, stack_layer, calls, run_no, rerun,
                   start_state, prev_calls, prev_pc, xlog, fn_args, fn_result>>

\* variant: a skipped scan uses up a layer index
SkipMissingScan_AdvancesZ ==
    /\ pc = "scan"
    /\ scan_idx <= Len(scans)
    /\ slab_scan_sfov_path_list(CurrentScan, slab) # <<>>
    /\ ~path_exists(slab_scan_sfov_path_list(CurrentScan, slab)[1], missing)
    /\ scan_idx' = scan_idx + 1
    /\ z' = z + 1
    /\ UNCHANGED <<include_scan_list, exclude_scan_list, missing, pc, slab,
                   effective_scans, scans, stack_is_in_loading_state, tile_specs,
                   stack_state, stack_layer, calls, run_no, rerun, start_state,
                   prev_calls, prev_pc, xlog, fn_args, fn_result>>

\* variant: a missing image ends the scan loop of the slab (break for continue)
SkipMissingScan_Breaks ==
    /\ pc = "scan"
    /\ scan_idx <= Len(scans)
    /\ slab_scan_sfov_path_list(CurrentScan, slab) # <<>>
    /\ ~path_exists(slab_scan_sfov_path_list(CurrentScan, slab)[1], missing)
    /\ scan_idx' = Len(scans) + 1
    /\ UNCHANGED <<include_scan_list, exclude_scan_list, missing, pc, slab,
                   effective_scans, scans, z, stack_is_in_loading_state, tile_specs,
                   stack_state, stack_layer, calls, run_no, rerun, start_state,
                   prev_calls, prev_pc, xlog, fn_args, fn_result>>

\* lines 304-307: the first collected image is not on disk
SkipMissingScan ==
    /\ pc = "scan"
    /\ scan_idx <= Len(scans)
    /\ slab_scan_sfov_path_list(CurrentScan, slab) # <<>>
    /\ ~path_exists(slab_scan_sfov_path_list(CurrentScan, slab)[1], missing)
    /\ scan_idx' = scan_idx + 1
    /\ UNCHANGED <<include_scan_list, exclude_scan_list, missing, pc, slab,
                   effective_scans, scans, z, stack_is_in_loading_state, tile_specs,
                   stack_state, stack_layer, calls, run_no, rerun, start_state,
                   prev_calls, prev_pc, xlog, fn_args, fn_result>>

\* lines 282-326 and 341-342, up to the first remote call of the iteration
BuildTileSpecs ==
    /\ pc = "scan"
    /\ scan_idx <= Len(scans)
    /\ slab_scan_sfov_path_list(CurrentScan, slab) # <<>>
    /\ path_exists(slab_scan_sfov_path_list(CurrentScan, slab)[1], missing)
    /\ LET specs == build_tile_specs_for_slab_scan(
                        CurrentScan, slab, slab_mfovs(slab),
                        slab_scan_sfov_path_list(CurrentScan, slab),
                        slab_scan_sfov_xy_list(CurrentScan, slab), z, WaferId)
       IN  /\ tile_specs' = specs
           /\ IF Len(specs) > 0
              THEN /\ pc' = IF stack_is_in_loading_state
                            THEN "save_tile_specs" ELSE "get_stack_metadata"
                   /\ scan_idx' = scan_idx
              ELSE /\ pc' = "scan"
                   /\ scan_idx' = scan_idx + 1
    /\ UNCHANGED <<include_scan_list, exclude_scan_list, missing, slab,
                   effective_scans, scans, z, stack_is_in_loading_state,
                   stack_state, stack_layer, calls, run_no, rerun, start_state,
                   prev_calls, prev_pc, xlog, fn_args, fn_result>>

\* variant: the lookup yields None for every stack
get_stack_metadata_or_none_AlwaysNone ==
    /\ pc = "get_stack_metadata"
    /\ calls' = Append(calls, Call("get_stack_metadata", slab, "RenderError", -1, 0))
    /\ pc' = "create_stack"
    /\ UNCHANGED <<include_scan_list, exclude_scan_list, missing, slab,
                   effective_scans, scans, scan_idx, z, stack_is_in_loading_state,
                   tile_specs, stack_state, stack_layer, run_no, rerun, start_state,
                   prev_calls, prev_pc, xlog, fn_args, fn_result>>

\* lines 176-183 and 354-355: the lookup of a stack the store does not have
\* raises RenderError, which is caught and turned into None
get_stack_metadata_or_none ==
    /\ pc = "get_stack_metadata"
    /\ IF stack_state[slab] = "absent"
       THEN /\ calls' = Append(calls, Call("get_stack_metadata", slab, "RenderError", -1, 0))
            /\ pc' = "create_stack"
       ELSE /\ calls' = Append(calls, Call("get_stack_metadata", slab, "ok", -1, 0))
            /\ pc' = "set_stack_state_LOADING"
    /\ UNCHANGED <<include_scan_list, exclude_scan_list, missing, slab,
                   effective_scans, scans, scan_idx, z, stack_is_in_loading_state,
                   tile_specs, stack_state, stack_layer, run_no, rerun, start_state,
                   prev_calls, prev_pc, xlog, fn_args, fn_result>>

\* variant: the flag of line 333 is not set after the stack was created
create_stack_FlagUnset ==
    /\ pc = "create_stack"
    /\ calls' = Append(calls, Call("create_stack", slab, "ok", -1, 0))
    /\ stack_state' = [stack_state EXCEPT ![slab] = "LOADING"]
    /\ stack_is_in_loading_state' = FALSE
    /\ pc' = "save_tile_specs"
    /\ UNCHANGED <<include_scan_list, exclude_scan_list, missing, slab,
                   effective_scans, scans, scan_idx, z, tile_specs, stack_layer,
                   run_no, rerun, start_state, prev_calls, prev_pc, xlog, fn_args, fn_result>>

\* lines 356-365 and 333: a new stack starts in state LOADING
create_stack ==
    /\ pc = "create_stack"
    /\ calls' = Append(calls, Call("create_stack", slab, "ok", -1, 0))
    /\ stack_state' = [stack_state EXCEPT ![slab] = "LOADING"]
    /\ stack_is_in_loading_state' = TRUE
    /\ pc' = "save_tile_specs"
    /\ UNCHANGED <<include_scan_list, exclude_scan_list, missing, slab,
                   effective_scans, scans, scan_idx, z, tile_specs, stack_layer,
                   run_no, rerun, start_state, prev_calls, prev_pc, xlog, fn_args, fn_result>>

\* variant: an existing stack is not reopened (the else branch is missing)
set_stack_state_LOADING_Missing ==
    /\ pc = "set_stack_state_LOADING"
    /\ stack_is_in_loading_state' = TRUE
    /\ pc' = "save_tile_specs"
    /\ UNCHANGED <<include_scan_list, exclude_scan_list, missing, slab,
                   effective_scans, scans, scan_idx, z, tile_specs, stack_state,
                   stack_layer, calls, run_no, rerun, start_state, prev_calls, prev_pc, xlog, fn_args, fn_result>>

\* lines 366-367 and 333
set_stack_state_LOADING ==
    /\ pc = "set_stack_state_LOADING"
    /\ calls' = Append(calls, Call("set_stack_state_LOADING", slab, "ok", -1, 0))
    /\ stack_state' = [stack_state EXCEPT ![slab] = "LOADING"]
    /\ stack_is_in_loading_state' = TRUE
    /\ pc' = "save_tile_specs"
    /\ UNCHANGED <<include_scan_list, exclude_scan_list, missing, slab,
                   effective_scans, scans, scan_idx, z, tile_specs, stack_layer,
                   run_no, rerun, start_state, prev_calls, prev_pc, xlog, fn_args, fn_result>>

\* lines 335-340: the store keeps tiles by tile id, so the tiles of the scan
\* now lie in layer z, and only there
save_tile_specs ==
    /\ pc = "save_tile_specs"
    /\ calls' = Append(calls, Call("save_tile_specs", slab, "ok", CurrentScan, tile_specs[1].z))
    /\ stack_layer' = [stack_layer EXCEPT ![slab][CurrentScan] = tile_specs[1].z]
    /\ z' = z + 1
    /\ scan_idx' = scan_idx + 1
    /\ pc' = "scan"
    /\ UNCHANGED <<include_scan_list, exclude_scan_list, missing, slab,
                   effective_scans, scans, stack_is_in_loading_state, tile_specs,
                   stack_state, run_no, rerun, start_state, prev_calls, prev_pc, xlog, fn_args, fn_result>>

\* line 256: the next slab of the list, or the end of the run
NextSlab ==
    IF slab < NumSlabs
    THEN /\ slab' = slab + 1
         /\ pc' = "slab"
    ELSE /\ slab' = slab
         /\ pc' = "done"

\* variant: the stack is closed whether or not the run opened it
EndScans_AlwaysCompletes ==
    /\ pc = "scan"
    /\ scan_idx > Len(scans)
    /\ pc' = "set_stack_state_COMPLETE"
    /\ slab' = slab
    /\ UNCHANGED <<include_scan_list, exclude_scan_list, missing,
                   effective_scans, scans, scan_idx, z, stack_is_in_loading_state,
                   tile_specs, stack_state, stack_layer, calls, run_no, rerun,
                   start_state, prev_calls, prev_pc, xlog, fn_args, fn_result>>

\* variant: the stack is never closed
EndScans_NeverCompletes ==
    /\ pc = "scan"
    /\ scan_idx > Len(scans)
    /\ NextSlab
    /\ UNCHANGED <<include_scan_list, exclude_scan_list, missing,
                   effective_scans, scans, scan_idx, z, stack_is_in_loading_state,
                   tile_specs, stack_state, stack_layer, calls, run_no, rerun,
                   start_state, prev_calls, prev_pc, xlog, fn_args, fn_result>>

\* line 344: the scans of the slab are exhausted
EndScans ==
    /\ pc = "scan"
    /\ scan_idx > Len(scans)
    /\ IF stack_is_in_loading_state
       THEN /\ pc' = "set_stack_state_COMPLETE"
            /\ slab' = slab
       ELSE NextSlab
    /\ UNCHANGED <<include_scan_list, exclude_scan_list, missing,
                   effective_scans, scans, scan_idx, z, stack_is_in_loading_state,
                   tile_specs, stack_state, stack_layer, calls, run_no, rerun,
                   start_state, prev_calls, prev_pc, xlog, fn_args, fn_result>>

\* line 345
set_stack_state_COMPLETE ==
    /\ pc = "set_stack_state_COMPLETE"
    /\ calls' = Append(calls, Call("set_stack_state_COMPLETE", slab, "ok", -1, 0))
    /\ stack_state' = [stack_state EXCEPT ![slab] = "COMPLETE"]
    /\ NextSlab
    /\ UNCHANGED <<include_scan_list, exclude_scan_list, missing,
                   effective_scans, scans, scan_idx, z, stack_is_in_loading_state,
                   tile_specs, stack_layer, run_no, rerun, start_state,
                   prev_calls, prev_pc, xlog, fn_args, fn_result>>

\* variant: the exception of a remote call is swallowed and the call is tried again
RemoteCallRaises_Swallowed ==
    /\ pc \in RemotePcs
    /\ Len(calls) < 8
    /\ calls' = Append(calls, Call(pc, slab, "error", -1, 0))
    /\ UNCHANGED <<include_scan_list, exclude_scan_list, missing, pc, slab,
                   effective_scans, scans, scan_idx, z, stack_is_in_loading_state,
                   tile_specs, stack_state, stack_layer, run_no, rerun, start_state,
                   prev_calls, prev_pc, xlog, fn_args, fn_result>>

\* variant: a failed call of the import of a stack still leads to the closing
\* of the stack, as a finally clause around the scan loop would
RemoteCallRaises_Completes ==
    /\ pc \in RemotePcs
    /\ calls' = Append(calls, Call(pc, slab, "error", -1, 0))
    /\ pc' = IF pc = "set_stack_state_COMPLETE" THEN "aborted" ELSE "set_stack_state_COMPLETE"
    /\ UNCHANGED <<include_scan_list, exclude_scan_list, missing, slab,
                   effective_scans, scans, scan_idx, z, stack_is_in_loading_state,
                   tile_specs, stack_state, stack_layer, run_no, rerun, start_state,
                   prev_calls, prev_pc, xlog, fn_args, fn_result>>

\* any remote call raises an exception that nothing catches: it reaches the
\* handler of lines 460-463, which exits
RemoteCallRaises ==
    /\ pc \in RemotePcs
    /\ calls' = Append(calls, Call(pc, slab, "error", -1, 0))
    /\ pc' = "aborted"
    /\ UNCHANGED <<include_scan_list, exclude_scan_list, missing, slab,
                   effective_scans, scans, scan_idx, z, stack_is_in_loading_state,
                   tile_specs, stack_state, stack_layer, run_no, rerun, start_state,
                   prev_calls, prev_pc, xlog, fn_args, fn_result>>

Next ==
    \/ StartRun
    \/ StartRerun
    \/ BuildLayoutRaises
    \/ BeginSlab
    \/ FirstPathIndexError
    \/ SkipMissingScan
    \/ BuildTileSpecs
    \/ get_stack_metadata_or_none
    \/ create_stack
    \/ set_stack_state_LOADING
    \/ save_tile_specs
    \/ EndScans
    \/ set_stack_state_COMPLETE
    \/ RemoteCallRaises

Spec == Init /\ [][Next]_vars

(***************************************************************************)
(* Scan selection on its own: the inputs are drawn from all short lists    *)
(* and all sets of effective scans, and the selection of lines 273-276 is  *)
(* applied to them.                                                        *)
(***************************************************************************)
SelInit ==
    /\ include_scan_list \in SeqsUpTo(ScanIds, MaxListLen)
    /\ exclude_scan_list \in SeqsUpTo(ScanIds, MaxListLen)
    /\ effective_scans \in SUBSET ScanIds
    /\ missing = {}
    /\ pc = "select"
    /\ slab = 1
    /\ scans = <<>>
    /\ scan_idx = 0
    /\ z = 1
    /\ stack_is_in_loading_state = FALSE
    /\ tile_specs = NoSpecs
    /\ stack_state = [s \in Slabs |-> "absent"]
    /\ stack_layer = [s \in Slabs |-> [n \in ScanIds |-> 0]]
    /\ calls = <<>>
    /\ run_no = 1
    /\ rerun = FALSE
    /\ start_state = [s \in Slabs |-> "absent"]
    /\ prev_calls = <<>>
    /\ prev_pc = "idle"
    /\ xlog = NoDefect
    /\ fn_args = <<>>
    /\ fn_result = <<>>

\* lines 273-276 on the drawn inputs
SelApply ==
    /\ pc = "select"
    /\ scans' = SelectScans(include_scan_list, exclude_scan_list, effective_scans)
    /\ scan_idx' = 1
    /\ pc' = "selected"
    /\ UNCHANGED <<include_scan_list, exclude_scan_list, missing, slab, effective_scans,
                   z, stack_is_in_loading_state, tile_specs, stack_state, stack_layer,
                   calls, run_no, rerun, start_state, prev_calls, prev_pc, xlog, fn_args, fn_result>>

SelNext == SelApply

SpecSel == SelInit /\ [][SelNext]_vars

(***************************************************************************)
(* Vocabulary of the properties.                                           *)
(***************************************************************************)
\* positions, in a call list, of the calls issued for the stack of slab s
CallIdx(cs, s) == {i \in DOMAIN cs : cs[i].stack = s}

\* positions of the tile batches saved to the stack of slab s
SaveIdx(cs, s) ==
    {i \in DOMAIN cs : /\ cs[i].stack = s
                       /\ cs[i].op = "save_tile_specs"
                       /\ cs[i].result = "ok"}

\* the saved batches of slab s as <<scan, z>>, in the order they were saved
SavesOf(cs, s) ==
    [k \in 1..Cardinality(SaveIdx(cs, s)) |->
        <<cs[sorted(SaveIdx(cs, s))[k]].scan, cs[sorted(SaveIdx(cs, s))[k]].z>>]

\* the set the selection is specified to be, for the inputs of the state
SpecifiedSelection(effective) ==
    ((IF Range(include_scan_list) # {} THEN Range(include_scan_list) ELSE effective)
        \cap effective) \ Range(exclude_scan_list)

\* the selected scans of slab s whose first image is on disk
ProducingScans(s) ==
    {n \in SpecifiedSelection(get_effective_scans(s)) : <<s, n>> \notin missing}

\* the stack of slab s was opened by the run that issued the calls cs
OpenedIn(cs, s) ==
    \E i \in CallIdx(cs, s) : /\ cs[i].op \in {"create_stack", "set_stack_state_LOADING"}
                              /\ cs[i].result = "ok"

CompleteIdx(cs, s) ==
    {i \in CallIdx(cs, s) : cs[i].op = "set_stack_state_COMPLETE" /\ cs[i].result = "ok"}

(***************************************************************************)
(* C1: in every run and for every slab, the k-th saved tile batch carries  *)
(* z = k, the saved scans come in ascending order, and every tile of the   *)
(* batch about to be saved carries the current z: scans that were skipped  *)
(* leave no gap.                                                           *)
(***************************************************************************)
C1_LayerIndexDense ==
    /\ \A s \in Slabs : \A k \in DOMAIN SavesOf(calls, s) :
          /\ SavesOf(calls, s)[k][2] = k
          /\ k > 1 => SavesOf(calls, s)[k - 1][1] < SavesOf(calls, s)[k][1]
    /\ pc = "save_tile_specs" =>
          /\ \A i \in DOMAIN tile_specs : tile_specs[i].z = z
          /\ z = Cardinality(SaveIdx(calls, slab)) + 1

\* scan 2 of slab 1 was skipped and scans 1 and 3 were saved as layers 1 and 2
C1_Witness ==
    /\ pc = "done"
    /\ <<1, 2>> \in missing
    /\ SavesOf(calls, 1) = << <<1, 1>>, <<3, 2>> >>

(***************************************************************************)
(* C2: when include_scans is non-empty, the selected scans are exactly     *)
(* include /\ effective, whatever exclude_scans holds.                     *)
(***************************************************************************)
C2_ExcludeIgnored ==
    (pc = "selected" /\ Range(include_scan_list) # {}) =>
        Range(scans) = Range(include_scan_list) \cap effective_scans

C4_EmptyImportTouchesNothing ==
    \A s \in Slabs :
        (pc \notin {"idle", "select", "selected"} /\ ProducingScans(s) = {}) =>
            /\ CallIdx(calls, s) = {}
            /\ stack_state[s] = start_state[s]

\* a finished run that skipped the only selected scan of a complete stack,
\* and imported another slab
C4_Witness ==
    /\ pc = "done"
    /\ \E s \in Slabs :
          /\ SpecifiedSelection(get_effective_scans(s)) # {}
          /\ ProducingScans(s) = {}
          /\ start_state[s] = "COMPLETE"
          /\ stack_state[s] = "COMPLETE"
    /\ calls # <<>>

(***************************************************************************)
(* C5: the first save of a run to a stack comes right after the stack was  *)
(* put in the loading state: after a lookup and a successful create when   *)
(* the run found the stack absent, after a lookup and a successful         *)
(* set-state LOADING when it found it loading or complete.  Whenever a     *)
(* batch is about to be saved, the stack exists and is in state LOADING.   *)
(***************************************************************************)
C5_LoadingBeforeFirstSave ==
    /\ pc = "save_tile_specs" =>
          /\ stack_state[slab] = "LOADING"
          /\ stack_is_in_loading_state
    /\ \A i \in DOMAIN calls :
          (/\ calls[i].op = "save_tile_specs"
           /\ \A j \in 1..(i - 1) :
                 ~(calls[j].op = "save_tile_specs" /\ calls[j].stack = calls[i].stack)) =>
              /\ i >= 3
              /\ calls[i - 1].stack = calls[i].stack
              /\ calls[i - 1].result = "ok"
              /\ calls[i - 1].op = IF start_state[calls[i].stack] = "absent"
                                   THEN "create_stack" ELSE "set_stack_state_LOADING"
              /\ calls[i - 2].stack = calls[i].stack
              /\ calls[i - 2].op = "get_stack_metadata"

\* the first batch of a run is about to be saved to a stack the run found complete
C5_Witness ==
    /\ pc = "save_tile_specs"
    /\ z = 1
    /\ start_state[slab] = "COMPLETE"
    /\ stack_state[slab] = "LOADING"

(***************************************************************************)
(* C6: when a run ends without a failure, every stack it opened has been   *)
(* set to COMPLETE exactly once, that call is the last call of the run for *)
(* the stack, and every selected scan of the slab whose image is on disk   *)
(* was saved before it.  At no time does a call for a stack follow its     *)
(* COMPLETE call.                                                          *)
(***************************************************************************)
C6_ClosedWithComplete ==
    /\ \A s \in Slabs : \A i \in CompleteIdx(calls, s) :
          \A j \in CallIdx(calls, s) : j <= i
    /\ pc = "done" =>
          \A s \in Slabs :
              OpenedIn(calls, s) =>
                  /\ Cardinality(CompleteIdx(calls, s)) = 1
                  /\ {SavesOf(calls, s)[k][1] : k \in DOMAIN SavesOf(calls, s)}
                        = ProducingScans(s)
                  /\ stack_state[s] = "COMPLETE"

\* a finished run that saved two layers to a stack, skipped a scan of it and closed it
C6_Witness ==
    /\ pc = "done"
    /\ \E s \in Slabs :
          /\ OpenedIn(calls, s)
          /\ Len(SavesOf(calls, s)) = 2
          /\ \E n \in SpecifiedSelection(get_effective_scans(s)) : <<s, n>> \in missing
          /\ \E i \in CompleteIdx(calls, s) : \A j \in CallIdx(calls, s) : j <= i

(***************************************************************************)
(* C7: a run that repeats the inputs of a run that ended without failure,  *)
(* and itself ends without failure, issues for every stack the earlier run *)
(* closed: a lookup, set-state LOADING, the same batches (same scan under  *)
(* the same z, in the same order; a tile spec is a function of the log,    *)
(* the slab, the scan and z) and set-state COMPLETE, from state COMPLETE   *)
(* back to state COMPLETE.                                                 *)
(***************************************************************************)
C7_RerunIdempotent ==
    (rerun /\ pc = "done" /\ prev_pc = "done") =>
        \A s \in Slabs :
            OpenedIn(prev_calls, s) =>
                /\ start_state[s] = "COMPLETE"
                /\ stack_state[s] = "COMPLETE"
                /\ SavesOf(calls, s) = SavesOf(prev_calls, s)
                /\ \E i \in CallIdx(calls, s) :
                      /\ calls[i].op = "set_stack_state_LOADING"
                      /\ calls[i].result = "ok"
                      /\ \A j \in SaveIdx(calls, s) : i < j
                /\ Cardinality(CompleteIdx(calls, s)) = 1

\* a repeated run that saved two layers again, one of them after a skipped scan
C7_Witness ==
    /\ rerun
    /\ pc = "done"
    /\ prev_pc = "done"
    /\ \E s \in Slabs :
          /\ OpenedIn(prev_calls, s)
          /\ Len(SavesOf(calls, s)) = 2
          /\ SavesOf(calls, s)[2][1] > SavesOf(calls, s)[1][1] + 1

(***************************************************************************)
(* C8: the step taken for a selected scan whose first image (the first of   *)
(* the images the log lists for it) is missing on disk                     *)
(* changes nothing but the loop position: no tile spec is built, z and the *)
(* loading flag keep their values, no remote call is issued, the store is  *)
(* untouched, and the loop stays in the same slab, at the next scan.       *)
(***************************************************************************)
C8_MissingImageSkips ==
    [][(/\ pc = "scan"
        /\ scan_idx <= Len(scans)
        /\ slab_scan_sfov_path_list(scans[scan_idx], slab) # <<>>
        /\ <<slab, scans[scan_idx]>> \in missing) =>
            /\ z' = z
            /\ stack_is_in_loading_state' = stack_is_in_loading_state
            /\ tile_specs' = tile_specs
            /\ calls' = calls
            /\ stack_state' = stack_state
            /\ stack_layer' = stack_layer
            /\ pc' = "scan"
            /\ slab' = slab
            /\ scans' = scans
            /\ scan_idx' = scan_idx + 1]_vars

\* the second selected scan of an open stack was skipped and the third is next
C8_Witness ==
    /\ pc = "scan"
    /\ scan_idx = 3
    /\ Len(scans) >= 3
    /\ <<slab, scans[2]>> \in missing
    /\ z = 2
    /\ stack_is_in_loading_state

(***************************************************************************)
(* C9 as stated: a remote call that fails is the last remote call of the   *)
(* run, and the run is aborted.                                            *)
(***************************************************************************)
C9_EveryFailureFatal ==
    \A i \in DOMAIN calls :
        calls[i].result # "ok" => (i = Len(calls) /\ pc = "aborted")

(***************************************************************************)
(* C9 amended: a failed create, set-state or save, and a lookup that fails *)
(* with anything but RenderError, is the last remote call of the run and   *)
(* the run is aborted.  A RenderError of the lookup is caught: the run     *)
(* goes on and its next remote call is the create of that stack.           *)
(***************************************************************************)
C9_FailureFatalButLookup ==
    \A i \in DOMAIN calls :
          /\ calls[i].result = "error" => (i = Len(calls) /\ pc = "aborted")
          /\ calls[i].result = "RenderError" =>
                /\ calls[i].op = "get_stack_metadata"
                /\ pc # "aborted" \/ i < Len(calls)
                /\ i < Len(calls) =>
                      /\ calls[i + 1].op = "create_stack"
                      /\ calls[i + 1].stack = calls[i].stack

\* a save failed after the stack was created and a first batch was saved
C9_Witness ==
    /\ pc = "aborted"
    /\ Len(calls) = 4
    /\ calls[1].result = "RenderError"
    /\ calls[3].op = "save_tile_specs"
    /\ calls[3].result = "ok"
    /\ calls[4].op = "save_tile_specs"
    /\ calls[4].result = "error"

(***************************************************************************)
(* C10: in the store, the tiles of two different scans of a stack never    *)
(* lie in the same layer z, whatever runs were played on the stack.        *)
(***************************************************************************)
C10_NoLayerReuse ==
    \A s \in Slabs : \A n1, n2 \in ScanIds :
        (n1 # n2 /\ stack_layer[s][n1] # 0) => stack_layer[s][n1] # stack_layer[s][n2]

(***************************************************************************)
(* Functions applied on their own: the machine stands still, the arguments *)
(* are drawn in the initial state and one step applies the function.       *)
(***************************************************************************)
MachineAtRest ==
    /\ include_scan_list = <<>>
    /\ exclude_scan_list = <<>>
    /\ missing = {}
    /\ slab = 1
    /\ effective_scans = {}
    /\ scans = <<>>
    /\ scan_idx = 0
    /\ z = 1
    /\ stack_is_in_loading_state = FALSE
    /\ tile_specs = NoSpecs
    /\ stack_state = [s \in Slabs |-> "absent"]
    /\ stack_layer = [s \in Slabs |-> [n \in ScanIds |-> 0]]
    /\ calls = <<>>
    /\ run_no = 1
    /\ rerun = FALSE
    /\ start_state = [s \in Slabs |-> "absent"]
    /\ prev_calls = <<>>
    /\ prev_pc = "idle"
    /\ xlog = NoDefect

\* arguments of create_tile_id: one wafer, SFOV indices 0..N_BEAMS-1
IdArgs ==
    [wafer_id : {WaferId}, slab : 1..MaxIdSlab, scan : ScanIds,
     mfov : 1..MaxIdMfov, sfov : 0..(N_BEAMS - 1)]

IdInit ==
    /\ MachineAtRest
    /\ pc = "id_args"
    /\ fn_args \in IdArgs
    /\ fn_result = ""

\* lines 152-174 on the drawn arguments
IdApply ==
    /\ pc = "id_args"
    /\ fn_result' = create_tile_id(fn_args.wafer_id, fn_args.slab, fn_args.scan,
                                   fn_args.mfov, fn_args.sfov)
    /\ pc' = "id_applied"
    /\ UNCHANGED <<include_scan_list, exclude_scan_list, missing, slab, effective_scans,
                   scans, scan_idx, z, stack_is_in_loading_state, tile_specs,
                   stack_state, stack_layer, calls, run_no, rerun, start_state,
                   prev_calls, prev_pc, xlog, fn_args>>

IdNext == IdApply

SpecId == IdInit /\ [][IdNext]_vars

\* decimal text of n, zero-padded to 2, 3 and 4 digits, for n below 10000
Text2(n) == IF n < 10 THEN "0" \o ToString(n) ELSE ToString(n)
Text3(n) == IF n < 100 THEN "0" \o Text2(n) ELSE ToString(n)
Text4(n) == IF n < 1000 THEN "0" \o Text3(n) ELSE ToString(n)

C12_TileIdInjective ==
    pc = "id_applied" =>
        \A b \in IdArgs :
            create_tile_id(b.wafer_id, b.slab, b.scan, b.mfov, b.sfov) = fn_result
                => b = fn_args

\* an id whose slab and scan numbers are those of another id, exchanged
C12_Witness ==
    /\ pc = "id_applied"
    /\ fn_args = [wafer_id |-> "60", slab |-> 1, scan |-> 2, mfov |-> 1, sfov |-> 0]
    /\ fn_result = "w60_magc0001_scan002_m0001_r46_s01"

(***************************************************************************)
(* C13: RENDER_SFOV_ORDER, indexed by the SFOV index 0..90, is a bijection *)
(* onto 1..91: it has 91 entries, each in 1..91, none twice, so the rank   *)
(* of the SFOV whose id was formed is the rank of no other SFOV.           *)
(***************************************************************************)
C13_SpiralTableBijection ==
    /\ Len(RENDER_SFOV_ORDER) = 91
    /\ \A i \in DOMAIN RENDER_SFOV_ORDER : RENDER_SFOV_ORDER[i] \in 1..91
    /\ \A v \in 1..91 : \E i \in DOMAIN RENDER_SFOV_ORDER : RENDER_SFOV_ORDER[i] = v
    /\ pc = "id_applied" =>
          \A j \in 0..90 :
              j # fn_args.sfov =>
                  RENDER_SFOV_ORDER[j + 1] # RENDER_SFOV_ORDER[fn_args.sfov + 1]

\* the id of the last SFOV of the spiral, which renders as rank 61
C13_Witness ==
    /\ pc = "id_applied"
    /\ fn_args.sfov = 90
    /\ fn_result = "w60_magc0002_scan001_m0003_r61_s91"

(***************************************************************************)
(* build_tile_specs_for_slab_scan on its own.  Its lists are either what   *)
(* the loop of lines 291-298 collects for a list of MFOVs, or short lists  *)
(* of stage positions drawn from a few points.                             *)
(***************************************************************************)
Points == {<<100, 200>>, <<150, 220>>, <<90, 260>>, <<-40, 10>>}

\* lists of distinct MFOV ids
MfovLists ==
    {l \in SeqsUpTo(1..MaxIdMfov, MaxBuildMfovs) :
        /\ l # <<>>
        /\ \A i, j \in DOMAIN l : i # j => l[i] # l[j]}

CollectedBuildArgs ==
    {[scan |-> n, slab |-> s, mfovs |-> l, stage_z |-> k,
      path_list |-> collect_paths(n, s, l), xy_list |-> collect_xys(n, s, l)] :
        n \in ScanIds, s \in Slabs, l \in MfovLists, k \in {1}}

ShortBuildArgs ==
    {[scan |-> 1, slab |-> 1, mfovs |-> <<1>>, stage_z |-> 1,
      path_list |-> [i \in DOMAIN xys |-> <<1, 1, 1, i - 1>>], xy_list |-> xys] :
        xys \in SeqsUpTo(Points, MaxPoints) \ {<<>>}}

BuildInit ==
    /\ MachineAtRest
    /\ pc = "build_args"
    /\ fn_args \in CollectedBuildArgs \cup ShortBuildArgs
    /\ fn_result = <<>>

\* lines 79-131 on the drawn arguments
BuildApply ==
    /\ pc = "build_args"
    /\ fn_result' = build_tile_specs_for_slab_scan(
                        fn_args.scan, fn_args.slab, fn_args.mfovs, fn_args.path_list,
                        fn_args.xy_list, fn_args.stage_z, WaferId)
    /\ pc' = "built"
    /\ UNCHANGED <<include_scan_list, exclude_scan_list, missing, slab, effective_scans,
                   scans, scan_idx, z, stack_is_in_loading_state, tile_specs,
                   stack_state, stack_layer, calls, run_no, rerun, start_state,
                   prev_calls, prev_pc, xlog, fn_args>>

BuildNext == BuildApply

SpecBuild == BuildInit /\ [][BuildNext]_vars

\* the least element of a set of integers, said without the model's Min
IsLeast(m, S) == m \in S /\ \A n \in S : m <= n

(***************************************************************************)
(* C14: with (min_x, min_y) the component-wise minimum of all stage        *)
(* positions of the scan, every tile is translated by (stage_x - min_x +   *)
(* 400, stage_y - min_y + 400), so by at least 400 on both axes, and some  *)
(* tile by exactly 400 in x and some tile by exactly 400 in y; the         *)
(* positions (100,200), (150,220), (90,260) have the minimum (90,200).     *)
(***************************************************************************)
C14_TranslationFromMinimum ==
    pc = "built" =>
        LET xs == {fn_args.xy_list[i][1] : i \in DOMAIN fn_args.xy_list}
            ys == {fn_args.xy_list[i][2] : i \in DOMAIN fn_args.xy_list}
        IN  \E min_x \in xs, min_y \in ys :
                /\ IsLeast(min_x, xs)
                /\ IsLeast(min_y, ys)
                /\ Len(fn_result) = Len(fn_args.xy_list)
                /\ \A i \in DOMAIN fn_result :
                      /\ fn_result[i].stageX = fn_args.xy_list[i][1]
                      /\ fn_result[i].stageY = fn_args.xy_list[i][2]
                      /\ fn_result[i].dx = fn_result[i].stageX - min_x + 400
                      /\ fn_result[i].dy = fn_result[i].stageY - min_y + 400
                      /\ fn_result[i].dx >= 400
                      /\ fn_result[i].dy >= 400
                /\ \E i \in DOMAIN fn_result : fn_result[i].dx = 400
                /\ \E i \in DOMAIN fn_result : fn_result[i].dy = 400
                /\ fn_args.xy_list = << <<100, 200>>, <<150, 220>>, <<90, 260>> >>
                      => (min_x = 90 /\ min_y = 200)

\* the three positions of the example, translated from (90, 200)
C14_Witness ==
    /\ pc = "built"
    /\ fn_args.xy_list = << <<100, 200>>, <<150, 220>>, <<90, 260>> >>
    /\ <<fn_result[1].dx, fn_result[1].dy>> = <<410, 400>>
    /\ <<fn_result[2].dx, fn_result[2].dy>> = <<460, 420>>
    /\ <<fn_result[3].dx, fn_result[3].dy>> = <<400, 460>>

(***************************************************************************)
(* C16: on the lists collected for a scan (N_BEAMS entries per MFOV, in    *)
(* MFOV list order) the builder yields 91 * |mfovs| tiles, and the i-th    *)
(* tile (0-based) has the id of MFOV mfovs[i div 91] and SFOV i mod 91,    *)
(* the i-th collected path, which is the image of that MFOV and SFOV, and  *)
(* the i-th collected stage position.                                      *)
(***************************************************************************)
C16_OneTilePerMfovSfov ==
    (pc = "built" /\ fn_args \in CollectedBuildArgs) =>
        /\ Len(fn_result) = 91 * Len(fn_args.mfovs)
        /\ \A i \in 0..(Len(fn_result) - 1) :
              LET mfov == fn_args.mfovs[(i \div 91) + 1]
                  sfov == i % 91
                  tile == fn_result[i + 1]
              IN  /\ tile.tileId = create_tile_id(WaferId, fn_args.slab, fn_args.scan,
                                                  mfov, sfov)
                  /\ tile.imageUrl = fn_args.path_list[i + 1]
                  /\ tile.imageUrl = <<fn_args.slab, fn_args.scan, mfov, sfov>>
                  /\ <<tile.stageX, tile.stageY>> = fn_args.xy_list[i + 1]
                  /\ tile.z = fn_args.stage_z

\* the 182 tiles of the MFOVs 2 and 1, in that order
C16_Witness ==
    /\ pc = "built"
    /\ fn_args.mfovs = <<2, 1>>
    /\ fn_args.slab = 2
    /\ fn_args.scan = 1
    /\ Len(fn_result) = 182
    /\ fn_result[91].tileId = "w60_magc0002_scan001_m0002_r61_s91"
    /\ fn_result[92].tileId = "w60_magc0002_scan001_m0001_r46_s01"

(***************************************************************************)
(* C15 as stated: the step taken for a selected scan for which nothing was *)
(* collected (the slab has no MFOVs) is a skip: the run is not aborted, no *)
(* batch is saved, z keeps its value, and the loop goes on with the next   *)
(* scan of the slab.                                                       *)
(***************************************************************************)
C15_EmptyResultSkips ==
    [][(/\ pc = "scan"
        /\ scan_idx <= Len(scans)
        /\ slab_scan_sfov_path_list(scans[scan_idx], slab) = <<>>) =>
            /\ pc' = "scan"
            /\ slab' = slab
            /\ scan_idx' = scan_idx + 1
            /\ z' = z
            /\ calls' = calls
            /\ stack_layer' = stack_layer]_vars

\* positions of the calls of an operation issued for the stack of slab s,
\* whatever became of them
IssuedIdx(cs, s, ops) == {i \in CallIdx(cs, s) : cs[i].op \in ops}

(***************************************************************************)
(* C17: a slab whose layout cannot be built ends the run: the run never    *)
(* gets past that slab, the scan loop of the slab is never entered, and no *)
(* remote call is issued in the run for the stack of that slab or of a     *)
(* later slab; the store never holds anything of that slab.                *)
(***************************************************************************)
C17_LayoutFailureAborts ==
    \A s \in xlog.bad_layout :
        /\ slab <= s
        /\ slab = s => pc \in {"slab", "aborted"}
        /\ \A t \in Slabs : t >= s => CallIdx(calls, t) = {}
        /\ stack_state[s] = start_state[s]
        /\ \A n \in ScanIds : stack_layer[s][n] = 0

\* the first slab was imported and closed, the layout of the second failed
C17_Witness ==
    /\ pc = "aborted"
    /\ slab = 2
    /\ 2 \in xlog.bad_layout
    /\ CompleteIdx(calls, 1) # {}
    /\ calls[Len(calls)].result = "ok"
    /\ CallIdx(calls, 2) = {}

(***************************************************************************)
(* C18: in a run, the ensure step of a stack (lookup, then create or       *)
(* set-state LOADING) is issued at most once; every save issued for the    *)
(* stack comes after that one step and its successful create or set-state  *)
(* LOADING, and before any set-state COMPLETE of the stack; and whenever a *)
(* save is about to be issued the stack is in state LOADING in the store.  *)
(***************************************************************************)
C18_SavesOnlyWhileLoading ==
    /\ \A s \in Slabs :
          LET look  == IssuedIdx(calls, s, {"get_stack_metadata"})
              open  == IssuedIdx(calls, s, {"create_stack", "set_stack_state_LOADING"})
              saves == IssuedIdx(calls, s, {"save_tile_specs"})
              comp  == IssuedIdx(calls, s, {"set_stack_state_COMPLETE"})
          IN  /\ Cardinality(look) <= 1
              /\ Cardinality(open) <= 1
              /\ \A j \in saves :
                    /\ \E l \in look : l < j
                    /\ \E i \in open : i < j /\ calls[i].result = "ok"
                    /\ \A c \in comp : j < c
    /\ pc = "save_tile_specs" =>
          (stack_is_in_loading_state /\ stack_state[slab] = "LOADING")

\* a closed stack was reopened once, took two batches and was closed again
C18_Witness ==
    \E s \in Slabs :
        /\ start_state[s] = "COMPLETE"
        /\ Cardinality(IssuedIdx(calls, s, {"get_stack_metadata"})) = 1
        /\ Cardinality(IssuedIdx(calls, s, {"set_stack_state_LOADING"})) = 1
        /\ Cardinality(IssuedIdx(calls, s, {"save_tile_specs"})) = 2
        /\ CompleteIdx(calls, s) # {}
        /\ stack_state[s] = "COMPLETE"

\* positions of the failed calls of the import of the stack of slab s
FailedImportIdx(cs, s) ==
    {i \in IssuedIdx(cs, s, {"get_stack_metadata", "create_stack",
                             "set_stack_state_LOADING", "save_tile_specs"}) :
        cs[i].result = "error"}

(***************************************************************************)
(* C19: if the ensure step or a save of a stack failed in the run, no      *)
(* set-state COMPLETE is issued for the stack in the run; the stack, if    *)
(* the run had opened it, is in state LOADING, and every batch the run     *)
(* saved to it lies in the store.                                          *)
(***************************************************************************)
C19_FailedImportNotCompleted ==
    \A s \in Slabs :
        FailedImportIdx(calls, s) # {} =>
            /\ IssuedIdx(calls, s, {"set_stack_state_COMPLETE"}) = {}
            /\ OpenedIn(calls, s) => stack_state[s] = "LOADING"
            /\ ~OpenedIn(calls, s) => stack_state[s] = start_state[s]
            /\ \A j \in SaveIdx(calls, s) : stack_layer[s][calls[j].scan] = calls[j].z

\* a closed stack was reopened, one batch was saved and the second save failed
C19_Witness ==
    \E s \in Slabs :
        /\ start_state[s] = "COMPLETE"
        /\ OpenedIn(calls, s)
        /\ Cardinality(SaveIdx(calls, s)) = 1
        /\ \E i \in FailedImportIdx(calls, s) : calls[i].op = "save_tile_specs"
        /\ stack_state[s] = "LOADING"
        /\ pc = "aborted"

====
